---- MODULE Spec2Model ----
(***************************************************************************)
(* Model of the synstyl derivation engine: SyntheticDataGenerator          *)
(* (Main.py) -- configuration merge, keyed derivation, column              *)
(* classification, per-row synthesis, fraud label, result assembly -- and  *)
(* DataTokenizer (tokenizer.py) -- tokens, masks, per-column rule loop.    *)
(*                                                                         *)
(* Representation.                                                         *)
(*   - Python str          : TLA+ string                                   *)
(*   - a table cell        : record [t, s, v]; t is "str" (s the text),    *)
(*                           "num" (a float, v in thousandths), "int"      *)
(*                           (v), "nan" (pandas missing) or "none" (None)  *)
(*   - the SHA-256 integer : the sequence of its decimal digits, most      *)
(*                           significant first (TLC integers are 32 bit)   *)
(*   - random.Random(seed) : a linear congruential stream; the k-th draw   *)
(*                           of a generator is a function of (seed, k)     *)
(*   - probabilities and perturbation factors are in hundredths            *)
(***************************************************************************)
EXTENDS Integers, Sequences, FiniteSets, TLC

(***************************************************************************)
(* Bounds of the model.                                                    *)
(***************************************************************************)
MaxRows == 2
HashLen == 16
FirstYear == 2025

(***************************************************************************)
(* Strings.                                                                *)
(***************************************************************************)
Upper == "ABCDEFGHIJKLMNOPQRSTUVWXYZ"
LowerAlpha == "abcdefghijklmnopqrstuvwxyz"
Digits == "0123456789"
Alphabet == Upper \o LowerAlpha \o Digits \o "|.-: &@*_"

CharAt(s, k) == SubSeq(s, k, k)

\* the position of each character of alpha in it
IndexMap(alpha) ==
    [ch \in {CharAt(alpha, k) : k \in 1..Len(alpha)} |->
        CHOOSE k \in 1..Len(alpha) : CharAt(alpha, k) = ch]

UpperIndex == IndexMap(Upper)
DigitIndex == IndexMap(Digits)
AlphabetIndex == IndexMap(Alphabet)

\* the position of ch in the string whose index map is m, 0 if absent
IndexIn(m, ch) == IF ch \in DOMAIN m THEN m[ch] ELSE 0

\* str.lower()
RECURSIVE Lower(_)
Lower(s) ==
    IF Len(s) = 0 THEN ""
    ELSE LET ch == CharAt(s, 1)
             u == IndexIn(UpperIndex, ch)
         IN  (IF u = 0 THEN ch ELSE CharAt(LowerAlpha, u)) \o Lower(SubSeq(s, 2, Len(s)))

\* sub in s
Contains(sub, s) ==
    \E k \in 1..(Len(s) - Len(sub) + 1) : SubSeq(s, k, k + Len(sub) - 1) = sub

\* any(x in s for x in keywords)
AnyIn(keywords, s) == \E x \in keywords : Contains(x, s)

\* str.strip() != "" for the cell texts of the model (blanks only)
RECURSIVE IsBlank(_)
IsBlank(s) ==
    IF Len(s) = 0 THEN TRUE
    ELSE CharAt(s, 1) = " " /\ IsBlank(SubSeq(s, 2, Len(s)))

\* str(n) for n >= 0
RECURSIVE IntStr(_)
IntStr(n) ==
    IF n < 10 THEN CharAt(Digits, n + 1)
    ELSE IntStr(n \div 10) \o CharAt(Digits, (n % 10) + 1)

\* str.zfill(w)
RECURSIVE ZFill(_, _)
ZFill(s, w) == IF Len(s) >= w THEN s ELSE ZFill("0" \o s, w)

\* f"{n:0wd}"
Fmt0(n, w) == ZFill(IntStr(n), w)

\* int(s) for a string of decimal digits
RECURSIVE ParseInt(_)
ParseInt(s) ==
    IF Len(s) = 0 THEN 0
    ELSE ParseInt(SubSeq(s, 1, Len(s) - 1)) * 10 + (IndexIn(DigitIndex, CharAt(s, Len(s))) - 1)

\* s[:n]
Prefix(s, n) ==
    IF n >= 0 THEN SubSeq(s, 1, IF n < Len(s) THEN n ELSE Len(s))
    ELSE SubSeq(s, 1, IF Len(s) + n > 0 THEN Len(s) + n ELSE 0)

\* s[-n:] for n > 0
Suffix(s, n) == IF n >= Len(s) THEN s ELSE SubSeq(s, Len(s) - n + 1, Len(s))

Min(a, b) == IF a < b THEN a ELSE b
Max(a, b) == IF a > b THEN a ELSE b

(***************************************************************************)
(* Keyed derivation core.                                                  *)
(***************************************************************************)
HashMod == 1000003
RandMod == 65536
RandRes == 100

\* hashlib.sha256(text.encode()): a digest number folded from the characters
RECURSIVE ShaUpTo(_, _)
ShaUpTo(text, k) ==
    IF k = 0 THEN 7
    ELSE (ShaUpTo(text, k - 1) * 131 + IndexIn(AlphabetIndex, CharAt(text, k)) + 1) % HashMod

Sha(text) == ShaUpTo(text, Len(text))

\* one step of a digit / random stream
Step(x) == (x * 75 + 74) % 65537

RECURSIVE Stream(_, _)
Stream(x, k) == IF k = 0 THEN x ELSE Step(Stream(x, k - 1))

\* int(hexdigest, 16) written in decimal: str(_hashint(salt, key))
RECURSIVE DigitStream(_, _)
DigitStream(x, n) ==
    IF n = 0 THEN ""
    ELSE CharAt(Digits, 1 + (Step(x) % 10)) \o DigitStream(Step(x), n - 1)

HashDigits(text) ==
    LET h == Sha(text)
    IN  CharAt(Digits, 2 + (Step(h) % 9)) \o DigitStream(Step(h), HashLen - 1)

\* _hashint(salt, key), as its decimal string
HashInt(salt, key) == HashDigits(salt \o "|" \o key)

\* (decimal string) % m
RECURSIVE DigitsModUpTo(_, _, _)
DigitsModUpTo(ds, k, m) ==
    IF k = 0 THEN 0
    ELSE (DigitsModUpTo(ds, k - 1, m) * 10 + (IndexIn(DigitIndex, CharAt(ds, k)) - 1)) % m

DigitsMod(ds, m) == DigitsModUpTo(ds, Len(ds), m)

\* _rng(salt, key): the seed of the generator
Rng(salt, key) == DigitsMod(HashInt(salt, key), RandMod)

\* the k-th raw draw of random.Random(seed)
Draw(seed, k) == Stream(seed, k)

\* k-th draw taken as r.randint(a, b)
RandInt(seed, k, a, b) == a + (Draw(seed, k) % (b - a + 1))

\* k-th draw taken as r.random(), in hundredths: 0..99
Random01(seed, k) == Draw(seed, k) % RandRes

\* k-th draw taken as r.uniform(low, high), in hundredths
Uniform(seed, k, low, high) == low + (((high - low) * Random01(seed, k)) \div RandRes)

(***************************************************************************)
(* Cells.                                                                  *)
(***************************************************************************)
Str(s) == [t |-> "str", s |-> s, v |-> 0]
Num(v) == [t |-> "num", s |-> "", v |-> v]
IntC(v) == [t |-> "int", s |-> "", v |-> v]
NaN == [t |-> "nan", s |-> "", v |-> 0]
None == [t |-> "none", s |-> "", v |-> 0]

\* pd.notna(cell)
NotNa(c) == c.t \notin {"nan", "none"}

\* repr of a non-negative float held in thousandths: 9000.0, 50.004
FloatStr(v) ==
    LET frac == Fmt0(v % 1000, 3)
        cut == IF SubSeq(frac, 2, 3) = "00" THEN Prefix(frac, 1)
               ELSE IF CharAt(frac, 3) = "0" THEN Prefix(frac, 2) ELSE frac
    IN  IntStr(v \div 1000) \o "." \o cut

\* str(cell)
PyStr(c) ==
    CASE c.t = "str" -> c.s
      [] c.t = "num" -> FloatStr(c.v)
      [] c.t = "int" -> IntStr(c.v)
      [] c.t = "nan" -> "nan"
      [] OTHER -> "None"

\* bool(cell)
Truthy(c) ==
    CASE c.t = "str" -> c.s # ""
      [] c.t \in {"num", "int"} -> c.v # 0
      [] c.t = "nan" -> TRUE
      [] OTHER -> FALSE

IsDigits(s) == Len(s) > 0 /\ \A k \in 1..Len(s) : IndexIn(DigitIndex, CharAt(s, k)) # 0

\* float(cell): [err, nan, v]; v in thousandths
ToFloat(c) ==
    CASE c.t = "num" -> [err |-> "", nan |-> FALSE, v |-> c.v]
      [] c.t = "int" -> [err |-> "", nan |-> FALSE, v |-> c.v * 1000]
      [] c.t = "nan" -> [err |-> "", nan |-> TRUE, v |-> 0]
      [] c.t = "none" -> [err |-> "TypeError", nan |-> FALSE, v |-> 0]
      [] OTHER -> IF IsDigits(c.s)
                  THEN [err |-> "", nan |-> FALSE, v |-> ParseInt(c.s) * 1000]
                  ELSE [err |-> "ValueError", nan |-> FALSE, v |-> 0]

(***************************************************************************)
(* Configuration.                                                          *)
(***************************************************************************)
DefaultMale ==
    <<"Aarav", "Vivaan", "Kabir", "Rohan", "Arjun", "Aditya", "Vihaan",
      "Ishaan", "Reyansh", "Atharv", "Noah", "Oliver", "James", "Liam",
      "Henry", "Lucas", "Leo", "Max", "Finn", "Ethan", "Ravi", "Pranav",
      "Priyansh", "Piyush">>
DefaultFemale ==
    <<"Ananya", "Ishita", "Kavya", "Riya", "Sanya", "Meera", "Diya",
      "Myra", "Aadhya", "Navya", "Zara", "Emma", "Olivia", "Ava",
      "Sophia", "Isabella", "Aashi", "Pooja", "Priyanshi", "Tashvi">>
DefaultCities ==
    <<"Mumbai", "Delhi", "Bengaluru", "Hyderabad", "Chennai", "Pune",
      "Kolkata", "Jaipur", "Ahmedabad", "Lucknow", "Surat", "Indore",
      "Bhopal", "Nagpur", "Noida", "Visakhapatnam", "Chandigarh">>
DefaultIsps ==
    <<"Jio", "Airtel", "BSNL", "Vodafone", "ACT", "Hathway", "Verizon",
      "T-Mobile", "AT&T", "Spectrum", "Comcast">>

\* factors in hundredths, floor in thousandths
DefaultAmountRanges ==
    [TransactionAmount |-> <<60, 170, 50000>>,
     SenderBankBalance |-> <<80, 130, 100000>>,
     ReceiverBankBalance |-> <<80, 130, 100000>>,
     SenderAnnualIncome |-> <<85, 125, 50000000>>,
     ReceiverAnnualIncome |-> <<85, 125, 50000000>>]

\* threshold in units, probabilities in hundredths
DefaultFraud ==
    [high_amount_threshold |-> 8000,
     high_amount_risk_increase |-> 25,
     new_account_risk_increase |-> 15,
     base_fraud_probability |-> 10,
     max_fraud_probability |-> 90]

Defaults ==
    [names |-> [male |-> DefaultMale, female |-> DefaultFemale],
     cities |-> DefaultCities,
     isps |-> DefaultIsps,
     card_brands |-> [visa |-> "4", mastercard |-> "5", amex |-> "3"],
     amount_ranges |-> DefaultAmountRanges,
     fraud_indicators |-> DefaultFraud]

\* for key, value in defaults.items(): if key not in self.config: ...
SetupDefaultConfig(cfg) ==
    [k \in (DOMAIN Defaults) \cup (DOMAIN cfg) |->
        IF k \in DOMAIN cfg THEN cfg[k] ELSE Defaults[k]]

(***************************************************************************)
(* Field synthesizers.  A synthesizer that can raise returns               *)
(* [err, val]: err is the exception's name, "" when it returns val.        *)
(***************************************************************************)
Ok(val) == [err |-> "", val |-> val]
Raise(e) == [err |-> e, val |-> None]

\* name_list[r % len(name_list)]
PickByHash(list, h) ==
    IF Len(list) = 0 THEN Raise("ZeroDivisionError")
    ELSE Ok(Str(list[1 + DigitsMod(h, Len(list))]))

\* _det_name(salt, key, gender); gender is a cell
DetName(cfg, salt, key, gender) ==
    LET r == HashInt(salt, "name|" \o key)
        names == cfg.names
    IN  IF Truthy(gender) /\ gender.t # "str" THEN Raise("AttributeError")
        ELSE IF Truthy(gender) /\ Lower(gender.s) \in {"male", "m"}
        THEN IF "male" \in DOMAIN names THEN PickByHash(names.male, r)
             ELSE Raise("KeyError")
        ELSE IF Truthy(gender) /\ Lower(gender.s) \in {"female", "f"}
        THEN IF "female" \in DOMAIN names THEN PickByHash(names.female, r)
             ELSE Raise("KeyError")
        ELSE IF {"male", "female"} \subseteq DOMAIN names
             THEN PickByHash(names.male \o names.female, r)
             ELSE Raise("KeyError")

\* _det_city(salt, key)
DetCity(cfg, salt, key) == PickByHash(cfg.cities, HashInt(salt, "city|" \o key))

\* _det_isp(salt, key)
DetIsp(cfg, salt, key) == PickByHash(cfg.isps, HashInt(salt, "isp|" \o key))

\* _det_ip(salt, key)
DetIp(salt, key) ==
    LET r == Rng(salt, "ip|" \o key)
    IN  IntStr(RandInt(r, 1, 1, 223)) \o "." \o IntStr(RandInt(r, 2, 0, 255)) \o "."
        \o IntStr(RandInt(r, 3, 0, 255)) \o "." \o IntStr(RandInt(r, 4, 1, 254))

\* _det_date_young(salt, key, 18, 70); today is date.today().year
DetDateYoung(today, salt, key) ==
    LET r == Rng(salt, "dob|" \o key)
        age == RandInt(r, 1, 18, 70)
    IN  Fmt0(today - age, 4) \o "-" \o Fmt0(RandInt(r, 2, 1, 12), 2)
        \o "-" \o Fmt0(RandInt(r, 3, 1, 28), 2)

\* _det_date_recent(salt, key, years)
DetDateRecent(today, salt, key, years) ==
    LET r == Rng(salt, "recent|" \o key)
    IN  Fmt0(today - RandInt(r, 1, 0, years), 4) \o "-" \o Fmt0(RandInt(r, 2, 1, 12), 2)
        \o "-" \o Fmt0(RandInt(r, 3, 1, 28), 2)

\* _det_time(salt, key)
DetTime(salt, key) ==
    LET r == Rng(salt, "time|" \o key)
    IN  Fmt0(RandInt(r, 1, 0, 23), 2) \o ":" \o Fmt0(RandInt(r, 2, 0, 59), 2)
        \o ":" \o Fmt0(RandInt(r, 3, 0, 59), 2)

\* _det_digits(salt, key, n)
DetDigits(salt, key, n) == ZFill(Suffix(HashInt(salt, "digits|" \o key), n), n)

\* the digit at position k of a digit string
DigitAt(s, k) == IndexIn(DigitIndex, CharAt(s, k)) - 1

\* doubled - 9 if doubled > 9 else doubled
LuhnDouble(d) == IF d * 2 > 9 THEN d * 2 - 9 ELSE d * 2

\* sum(digits) after doubling digits[i] for i in range(len-1, -1, -2)
RECURSIVE LuhnBodySum(_, _)
LuhnBodySum(s, k) ==
    IF k = 0 THEN 0
    ELSE LuhnBodySum(s, k - 1)
         + (IF (Len(s) - k) % 2 = 0 THEN LuhnDouble(DigitAt(s, k)) ELSE DigitAt(s, k))

\* a check digit computed with the doubling started one digit too far left
LuhnCheckDigitWrongParity(num15) ==
    IntStr((10 - (LuhnBodySum(num15 \o "0", Len(num15)) % 10)) % 10)

\* _luhn_checkdigit(num15)
LuhnCheckDigit(num15) ==
    IntStr((10 - (LuhnBodySum(num15, Len(num15)) % 10)) % 10)

\* _det_card(salt, key, brand): [err, val], val a string cell
DetCard(cfg, salt, key, brand) ==
    LET brands == cfg.card_brands
        b == IF brand \notin DOMAIN brands THEN "visa" ELSE brand
    IN  IF b \notin DOMAIN brands THEN Raise("KeyError")
        ELSE LET prefix == brands[b]
                 base == ZFill(prefix \o Prefix(HashInt(salt, "card|" \o key),
                                               15 - Len(prefix)), 15)
             IN  Ok(Str(base \o LuhnCheckDigit(base)))

\* round(p / 100000, 2): p in 1e-5 units, result in thousandths (half to even)
Round2(p) ==
    LET q == p \div 1000
        r == p % 1000
    IN  10 * (IF r > 500 \/ (r = 500 /\ q % 2 = 1) THEN q + 1 ELSE q)

\* round(max(floor, x * factor), 2); x and floor in thousandths, factor in hundredths
ClampRound(x, factor, floor) == Round2(Max(floor * 100, x * factor))

\* _perturb(val, salt, key, low, high, floor): a cell
Perturb(val, salt, key, low, high, floor) ==
    LET x == ToFloat(val)
        factor == Uniform(Rng(salt, "noise|" \o key), 1, low, high)
    IN  IF x.err # "" THEN val
        ELSE IF x.nan THEN Num(Round2(floor * 100))
        ELSE Num(ClampRound(x.v, factor, floor))

\* _first_nonempty(row, candidates)
RECURSIVE FirstNonempty(_, _)
FirstNonempty(row, candidates) ==
    IF Len(candidates) = 0 THEN ""
    ELSE LET c == Head(candidates)
         IN  IF c \in DOMAIN row /\ NotNa(row[c]) /\ ~IsBlank(PyStr(row[c]))
             THEN PyStr(row[c])
             ELSE FirstNonempty(row, Tail(candidates))

(***************************************************************************)
(* Column classifier.                                                      *)
(***************************************************************************)
\* the chain with the address test ahead of the name test
CategoryAddressFirst(col) ==
    LET c == Lower(col)
    IN  IF AnyIn({"address", "city", "location"}, c) THEN "address_columns"
        ELSE IF AnyIn({"name", "firstname", "lastname"}, c) THEN "name_columns"
        ELSE IF AnyIn({"id", "ssn", "aadhaar", "aadhar", "pan"}, c) THEN "id_columns"
        ELSE IF AnyIn({"date", "time", "dob", "birth"}, c) THEN "date_columns"
        ELSE IF AnyIn({"amount", "balance", "income", "price", "value"}, c) THEN "amount_columns"
        ELSE IF AnyIn({"phone", "mobile", "contact"}, c) THEN "phone_columns"
        ELSE IF Contains("email", c) THEN "email_columns"
        ELSE IF Contains("ip", c) THEN "ip_columns"
        ELSE IF Contains("gender", c) THEN "gender_columns"
        ELSE ""

\* the if/elif chain of _detect_column_types for one column
Category(col) ==
    LET c == Lower(col)
    IN  IF AnyIn({"name", "firstname", "lastname"}, c) THEN "name_columns"
        ELSE IF AnyIn({"address", "city", "location"}, c) THEN "address_columns"
        ELSE IF AnyIn({"id", "ssn", "aadhaar", "aadhar", "pan"}, c) THEN "id_columns"
        ELSE IF AnyIn({"date", "time", "dob", "birth"}, c) THEN "date_columns"
        ELSE IF AnyIn({"amount", "balance", "income", "price", "value"}, c) THEN "amount_columns"
        ELSE IF AnyIn({"phone", "mobile", "contact"}, c) THEN "phone_columns"
        ELSE IF Contains("email", c) THEN "email_columns"
        ELSE IF Contains("ip", c) THEN "ip_columns"
        ELSE IF Contains("gender", c) THEN "gender_columns"
        ELSE ""

Categories ==
    {"name_columns", "address_columns", "id_columns", "date_columns", "amount_columns",
     "phone_columns", "email_columns", "ip_columns", "gender_columns"}

\* _detect_column_types(df)
DetectColumnTypes(cols) ==
    LET catOf == [k \in 1..Len(cols) |-> Category(cols[k])]
        pick(cat) == LET idx == SelectSeq([k \in 1..Len(cols) |-> k],
                                          LAMBDA k : catOf[k] = cat)
                     IN  [j \in 1..Len(idx) |-> cols[idx[j]]]
    IN  [cat \in Categories |-> pick(cat)]

(***************************************************************************)
(* Row assembly: the body of the loop of generate_synthetic_data.          *)
(* A row is a function from column names to cells.  The loop body is       *)
(* threaded through st = [new, err]: once err is set (an exception         *)
(* propagates) the remaining statements do nothing.                        *)
(***************************************************************************)
InCols(col, cols) == \E k \in 1..Len(cols) : cols[k] = col

\* the columns among cs that are in df.columns, in the order of cs
Present(cs, cols) == SelectSeq(cs, LAMBDA c : InCols(c, cols))

\* sender_key if "receiver" not in col.lower() else receiver_key
BaseKey(col, ctx) == IF ~Contains("receiver", Lower(col)) THEN ctx.sender_key ELSE ctx.receiver_key

\* the gender handed to _det_name for a name column
GenderFor(col, ctx) ==
    IF Contains("sender", Lower(col)) /\ InCols("SenderGender", ctx.cols)
    THEN ctx.row["SenderGender"]
    ELSE IF Contains("receiver", Lower(col)) /\ InCols("ReceiverGender", ctx.cols)
    THEN ctx.row["ReceiverGender"]
    ELSE None

\* r.choice(["Male", "Female", "Other"])
GenderChoice(salt, key) ==
    <<"Male", "Female", "Other">>[1 + (Draw(Rng(salt, "gender|" \o key), 1) % 3)]

\* The assignments new[col] = ... of the loop body, as [col, res] in the order
\* the code makes them; res is what the right-hand side returns or raises.

\* for col in column_types['name_columns']
NameSteps(cs, ctx) ==
    [k \in 1..Len(cs) |->
        [col |-> cs[k],
         res |-> DetName(ctx.cfg, ctx.salt, BaseKey(cs[k], ctx) \o "|" \o cs[k],
                         GenderFor(cs[k], ctx))]]

\* for col in column_types['address_columns']
AddressSteps(cs, ctx) ==
    [k \in 1..Len(cs) |->
        [col |-> cs[k],
         res |-> DetCity(ctx.cfg, ctx.salt, BaseKey(cs[k], ctx) \o "|" \o cs[k])]]

\* the right-hand sides of the IDs and Cards blocks
IdCardValue(col, ctx) ==
    CASE col = "SenderAadhar" -> Ok(Str(DetDigits(ctx.salt, ctx.sender_key \o "|aadhaar", 12)))
      [] col = "SenderSSN" -> Ok(Str(DetDigits(ctx.salt, ctx.sender_key \o "|ssn", 9)))
      [] col = "ReceiverSSN" -> Ok(Str(DetDigits(ctx.salt, ctx.receiver_key \o "|ssn", 9)))
      [] col = "SenderCard" -> DetCard(ctx.cfg, ctx.salt, ctx.sender_key, "visa")
      [] col = "ReceiverCard" -> DetCard(ctx.cfg, ctx.salt, ctx.receiver_key, "mc")

\* if "SenderAadhar" in df.columns: ... if "ReceiverCard" in df.columns: ...
IdCardSteps(ctx) ==
    LET cs == Present(<<"SenderAadhar", "SenderSSN", "ReceiverSSN", "SenderCard",
                        "ReceiverCard">>, ctx.cols)
    IN  [k \in 1..Len(cs) |-> [col |-> cs[k], res |-> IdCardValue(cs[k], ctx)]]

\* for col in column_types['ip_columns']
IpSteps(cs, ctx) ==
    [k \in 1..Len(cs) |->
        [col |-> cs[k],
         res |-> Ok(Str(DetIp(ctx.salt, BaseKey(cs[k], ctx) \o "|" \o cs[k])))]]

\* [c for c in df.columns if "isp" in c.lower()]
IspColumns(cols) == SelectSeq(cols, LAMBDA c : Contains("isp", Lower(c)))

IspSteps(cs, ctx) ==
    [k \in 1..Len(cs) |->
        [col |-> cs[k],
         res |-> DetIsp(ctx.cfg, ctx.salt, BaseKey(cs[k], ctx) \o "|" \o cs[k])]]

\* for col in column_types['gender_columns']
GenderSteps(cs, ctx) ==
    [k \in 1..Len(cs) |->
        [col |-> cs[k], res |-> Ok(Str(GenderChoice(ctx.salt, BaseKey(cs[k], ctx))))]]

\* the right-hand sides of the Dates block
DateValue(col, ctx) ==
    CASE col = "SenderDOB" -> DetDateYoung(ctx.today, ctx.salt, ctx.sender_key)
      [] col = "ReceiverDOB" -> DetDateYoung(ctx.today, ctx.salt, ctx.receiver_key)
      [] col = "TransactionDate" -> DetDateRecent(ctx.today, ctx.salt, ctx.txn_key, 9)
      [] col = "TransactionTime" -> DetTime(ctx.salt, ctx.txn_key)
      [] col = "ReceiverAccountCreationDate" ->
            DetDateRecent(ctx.today, ctx.salt, ctx.receiver_key, 10)
      [] col = "LastTransactionDate" -> DetDateRecent(ctx.today, ctx.salt, ctx.sender_key, 2)

DateSteps(ctx) ==
    LET cs == Present(<<"SenderDOB", "ReceiverDOB", "TransactionDate", "TransactionTime",
                        "ReceiverAccountCreationDate", "LastTransactionDate">>, ctx.cols)
    IN  [k \in 1..Len(cs) |-> [col |-> cs[k], res |-> Ok(Str(DateValue(cs[k], ctx)))]]

\* the assignments in order; the first that raises ends the row
RECURSIVE ApplySteps(_, _)
ApplySteps(steps, st) ==
    IF Len(steps) = 0 THEN st
    ELSE IF Head(steps).res.err # "" THEN [st EXCEPT !.err = Head(steps).res.err]
    ELSE ApplySteps(Tail(steps), [st EXCEPT !.new[Head(steps).col] = Head(steps).res.val])

\* for col, params in self.config['amount_ranges'].items(): if col in df.columns: ...
AmountBlock(st, ctx) ==
    LET ar == ctx.cfg.amount_ranges
    IN  IF st.err # "" THEN st
        ELSE [st EXCEPT !.new =
                [c \in DOMAIN st.new |->
                    IF c \in DOMAIN ar
                    THEN Perturb(ctx.row[c], ctx.salt, ctx.txn_key \o "|" \o c,
                                 ar[c][1], ar[c][2], ar[c][3])
                    ELSE st.new[c]]]

\* the probability left unclamped
FraudClampNone(prob, maxp) == prob

\* min(prob, fraud_config['max_fraud_probability'])
FraudClamp(prob, maxp) == Min(prob, maxp)

\* 1 if r.random() < p else 0
FraudLabel(draw, p) == IF draw < p THEN 1 ELSE 0

NoFraud ==
    [ran |-> FALSE, amt |-> 0, high |-> FALSE, newacct |-> FALSE,
     prob |-> 0, cmp |-> 0, draw |-> 0, label |-> 0]

\* the locals of the Fraud block for the row held in st: [err, fr]
FraudLocals(st, ctx) ==
    LET fc == ctx.cfg.fraud_indicators
        cell == IF "TransactionAmount" \in DOMAIN st.new
                THEN st.new["TransactionAmount"] ELSE IntC(0)
        amt == IF Truthy(cell) THEN ToFloat(cell) ELSE ToFloat(IntC(0))
        has(k) == k \in DOMAIN fc
        high == has("high_amount_threshold") /\ ~amt.nan
                /\ amt.v > fc.high_amount_threshold * 1000
        hasdate == "ReceiverAccountCreationDate" \in DOMAIN st.new
        newacct == hasdate
                   /\ ParseInt(Prefix(st.new["ReceiverAccountCreationDate"].s, 4))
                        >= ctx.today - 1
        bad == amt.err # ""
               \/ ~has("base_fraud_probability")
               \/ ~has("high_amount_threshold")
               \/ (high /\ ~has("high_amount_risk_increase"))
               \/ (newacct /\ ~has("new_account_risk_increase"))
               \/ ~has("max_fraud_probability")
        prob == fc.base_fraud_probability
                + (IF high THEN fc.high_amount_risk_increase ELSE 0)
                + (IF newacct THEN fc.new_account_risk_increase ELSE 0)
        cmp == FraudClamp(prob, fc.max_fraud_probability)
        draw == Random01(Rng(ctx.salt, "fraud|" \o ctx.txn_key), 1)
    IN  IF bad
        THEN [err |-> IF amt.err # "" THEN amt.err ELSE "KeyError", fr |-> NoFraud]
        ELSE [err |-> "",
              fr |-> [ran |-> TRUE, amt |-> amt.v, high |-> high, newacct |-> newacct,
                      prob |-> prob, cmp |-> cmp, draw |-> draw,
                      label |-> FraudLabel(draw, cmp)]]

\* new["Fraud"] = 1 if ... else 0, from the locals f of the Fraud block
FraudAssign(st, f) ==
    IF f.err # "" THEN [new |-> st.new, err |-> f.err, fr |-> NoFraud]
    ELSE [new |-> [st.new EXCEPT !["Fraud"] = IntC(f.fr.label)], err |-> "", fr |-> f.fr]

\* if "Fraud" in df.columns: ...
FraudBlock(st, ctx) ==
    IF st.err # "" \/ ~InCols("Fraud", ctx.cols)
    THEN [new |-> st.new, err |-> st.err, fr |-> NoFraud]
    ELSE FraudAssign(st, FraudLocals(st, ctx))

\* sender_key, receiver_key, txn_key of row i (the index label) and the call's context
KeyOr(key, fallback) == IF key # "" THEN key ELSE fallback

RowContext(cfg, salt, cols, ctypes, today, row, i) ==
    [cfg |-> cfg, salt |-> salt, cols |-> cols, ctypes |-> ctypes, today |-> today,
     row |-> row,
     sender_key |->
        KeyOr(FirstNonempty(row, <<"SenderAadhar", "SenderSSN", "SenderPhone", "SenderName">>),
              "snd" \o IntStr(i)),
     receiver_key |->
        KeyOr(FirstNonempty(row, <<"ReceiverSSN", "ReceiverCard", "ReceiverPhone",
                                   "ReceiverName">>),
              "rcv" \o IntStr(i)),
     txn_key |-> IF InCols("TransactionID", cols) THEN PyStr(row["TransactionID"])
                 ELSE IntStr(i)]

\* the assignments of the loop body up to the amount columns, in order
AllSteps(ctx) ==
    NameSteps(ctx.ctypes.name_columns, ctx)
    \o AddressSteps(ctx.ctypes.address_columns, ctx)
    \o IdCardSteps(ctx)
    \o IpSteps(ctx.ctypes.ip_columns, ctx)
    \o IspSteps(IspColumns(ctx.cols), ctx)
    \o GenderSteps(ctx.ctypes.gender_columns, ctx)
    \o DateSteps(ctx)

\* the loop body on a row context: [new, err, fr]
SynthWith(ctx) ==
    FraudBlock(AmountBlock(ApplySteps(AllSteps(ctx), [new |-> ctx.row, err |-> ""]), ctx), ctx)

\* the whole loop body for row number i (the index label) of the table
SynthRow(cfg, salt, cols, ctypes, today, row, i) ==
    SynthWith(RowContext(cfg, salt, cols, ctypes, today, row, i))

\* pd.DataFrame(out_rows): the columns come from the rows; no rows, no columns
DataFrame(cols, out_rows) ==
    [cols |-> IF Len(out_rows) = 0 THEN <<>> ELSE cols, rows |-> out_rows]

(***************************************************************************)
(* DataTokenizer (tokenizer.py): configuration, hashing, tokens, masks.    *)
(***************************************************************************)
MaxKeep == 4
HexLen == 16

TokNameList ==
    <<"Aarav", "Vivaan", "Kabir", "Rohan", "Arjun", "Aditya", "Vihaan", "Ishaan",
      "Reyansh", "Atharv", "Ananya", "Ishita", "Kavya", "Riya", "Sanya", "Meera",
      "Diya", "Myra", "Aadhya", "Navya", "Joe", "Alex", "Mack", "Zara", "Noah",
      "Oliver", "James", "Liam", "Emma", "Olivia", "Ava", "Sophia", "Isabella",
      "Henry", "Lucas", "Leo", "Max", "Finn", "Ethan", "Ravi", "Tashvi", "Aarav",
      "Aashi", "Pooja", "Pranav", "Priyanshi", "Priyansh", "Piyush", "Shorya">>
TokCityList ==
    <<"Mumbai", "Delhi", "Bengaluru", "Hyderabad", "Chennai", "Pune", "Kolkata",
      "Jaipur", "Ahmedabad", "Lucknow", "Surat", "Indore", "Bhopal", "Nagpur",
      "Noida", "Visakhapatnam", "Chandigarh", "California", "Texas", "Florida",
      "New York", "Maryland", "Colorado">>

TokDefaults ==
    [name_list |-> TokNameList,
     city_list |-> TokCityList,
     mask_digits |-> 4,
     token_prefixes |->
        [aadhaar |-> "AAD", ssn |-> "SSN", card |-> "CARD", receiver_card |-> "RCARD"]]

\* for key, value in defaults.items(): if key not in self.config: ...
TokSetupDefaultConfig(cfg) ==
    [k \in (DOMAIN TokDefaults) \cup (DOMAIN cfg) |->
        IF k \in DOMAIN cfg THEN cfg[k] ELSE TokDefaults[k]]

HexDigits == "0123456789abcdef"
HexIndex == IndexMap(HexDigits)

RECURSIVE HexStream(_, _)
HexStream(x, n) ==
    IF n = 0 THEN ""
    ELSE CharAt(HexDigits, 1 + (Step(x) % 16)) \o HexStream(Step(x), n - 1)

\* _sha(val): hashlib.sha256(val.encode()).hexdigest()
ShaHex(val) == HexStream(Sha(val), HexLen)

\* int(hexdigest, 16) % m
RECURSIVE HexModUpTo(_, _, _)
HexModUpTo(hs, k, m) ==
    IF k = 0 THEN 0
    ELSE (HexModUpTo(hs, k - 1, m) * 16 + (IndexIn(HexIndex, CharAt(hs, k)) - 1)) % m

HexMod(hs, m) == HexModUpTo(hs, Len(hs), m)

\* _token(prefix, raw, salt) keeping another count of hex characters
TokenShort(prefix, raw, salt) ==
    prefix \o "-" \o Prefix(ShaHex(salt \o "|" \o PyStr(raw)), 8)

\* _token(prefix, raw, salt): f"{prefix}-{self._sha(salt + '|' + str(raw))[:12]}"
Token(prefix, raw, salt) ==
    prefix \o "-" \o Prefix(ShaHex(salt \o "|" \o PyStr(raw)), 12)

\* "".join(ch for ch in str(num) if ch.isdigit())
RECURSIVE DigitsOf(_)
DigitsOf(s) ==
    IF Len(s) = 0 THEN ""
    ELSE (IF IndexIn(DigitIndex, CharAt(s, 1)) # 0 THEN CharAt(s, 1) ELSE "")
         \o DigitsOf(SubSeq(s, 2, Len(s)))

\* "*" * n
RECURSIVE Stars(_)
Stars(n) == IF n <= 0 THEN "" ELSE "*" \o Stars(n - 1)

\* s[-n:] for n >= 0 (s[-0:] is the whole of s)
SliceLast(s, n) == IF n = 0 THEN s ELSE Suffix(s, n)

\* _mask_keep_last(num, last); last = self.config['mask_digits'] when not given
MaskKeepLast(num, last) ==
    LET s == DigitsOf(num)
    IN  IF Len(s) <= last THEN s
        ELSE Stars(Len(s) - last) \o SliceLast(s, last)

\* _mask_keep_first_last(num, keep)
MaskKeepFirstLast(num, keep) ==
    LET s == DigitsOf(num)
    IN  IF Len(s) <= keep * 2 THEN s
        ELSE Prefix(s, keep) \o Stars(Len(s) - keep * 2) \o SliceLast(s, keep)

\* _city_from_hash(text, salt): [err, val]
CityFromHash(cfg, text, salt) ==
    IF Len(cfg.city_list) = 0 THEN Raise("ZeroDivisionError")
    ELSE Ok(Str(cfg.city_list[1 + HexMod(ShaHex(salt \o "|" \o text), Len(cfg.city_list))]))

\* _name_from_hash(text, salt): [err, val]
NameFromHash(cfg, text, salt) ==
    IF Len(cfg.name_list) = 0 THEN Raise("ZeroDivisionError")
    ELSE Ok(Str(cfg.name_list[1 + HexMod(ShaHex(salt \o "|" \o text), Len(cfg.name_list))]))

\* str.replace(" ", ".")
RECURSIVE DotSpaces(_)
DotSpaces(s) ==
    IF Len(s) = 0 THEN ""
    ELSE (IF CharAt(s, 1) = " " THEN "." ELSE CharAt(s, 1)) \o DotSpaces(SubSeq(s, 2, Len(s)))

\* what _email_from_hash makes of the name drawn
EmailOf(name) ==
    IF name.err # "" THEN name
    ELSE Ok(Str(DotSpaces(Lower(name.val.s)) \o "@example.com"))

\* _email_from_hash(text, salt): [err, val]
EmailFromHash(cfg, text, salt) == EmailOf(NameFromHash(cfg, text, salt \o "|email"))

(***************************************************************************)
(* DataTokenizer.tokenize_dataset: the transformation map and the loops.   *)
(***************************************************************************)
NumRules == 8

\* the condition lambdas of transformation_map, in order
RuleMatches(r, col) ==
    LET cl == Lower(col)
    IN  CASE r = 1 -> Contains("name", cl) /\ ~Contains("transaction", cl)
                      /\ ~Contains("location", cl)
          [] r = 2 -> Contains("aadhaar", cl) \/ Contains("aadhar", cl)
          [] r = 3 -> cl = "ssn" \/ Contains("ssn", cl)
          [] r = 4 -> Contains("card", cl) /\ Contains("receiver", cl)
          [] r = 5 -> Contains("card", cl)
          [] r = 6 -> Contains("phone", cl) \/ Contains("mobile", cl)
          [] r = 7 -> Contains("email", cl)
          [] OTHER -> Contains("address", cl)

\* the key of self.config['token_prefixes'] that a token rule reads
PrefixKey(r) ==
    CASE r = 2 -> "aadhaar" [] r = 3 -> "ssn" [] r = 4 -> "receiver_card" [] OTHER -> "card"

\* self._token(self.config['token_prefixes'][key], v, salt): [err, val]
TokenRule(cfg, key, v, salt) ==
    IF key \notin DOMAIN cfg.token_prefixes THEN Raise("KeyError")
    ELSE Ok(Str(Token(cfg.token_prefixes[key], Str(v), salt)))

\* the transform lambdas of transformation_map on one cell text v: [err, val]
RuleCell(r, cfg, salt, col, v) ==
    CASE r = 1 -> NameFromHash(cfg, v, salt \o "|" \o col)
      [] r \in 2..5 -> TokenRule(cfg, PrefixKey(r), v, salt)
      [] r = 6 -> Ok(Str(MaskKeepLast(v, cfg.mask_digits)))
      [] r = 7 -> EmailFromHash(cfg, v, salt \o "|" \o col)
      [] OTHER -> CityFromHash(cfg, v, salt \o "|" \o col)

\* out[col].astype(str).apply(lambda v: transform(v, col)): the new cells, or
\* the exception of the first cell that raises
ApplyRule(r, cfg, salt, col, rows) ==
    [k \in 1..Len(rows) |-> RuleCell(r, cfg, salt, col, PyStr(rows[k][col]))]

FirstError(cells) ==
    IF \A k \in 1..Len(cells) : cells[k].err = "" THEN ""
    ELSE cells[CHOOSE k \in 1..Len(cells) :
                  cells[k].err # "" /\ \A j \in 1..(k - 1) : cells[j].err = ""].err

\* out[col] = ...
SetColumn(rows, col, cells) ==
    [k \in 1..Len(rows) |-> [rows[k] EXCEPT ![col] = cells[k].val]]

\* for condition, transform in transformation_map: if condition(col): try ... break
\* except: print.  st = [rows, rule, failed]: the rows of out, the rule that was
\* applied (0: none) and the rules that raised, in order
RECURSIVE TryRules(_, _, _, _, _)
AfterRule(r, cfg, salt, col, st, cells) ==
    IF FirstError(cells) = ""
    THEN [rows |-> SetColumn(st.rows, col, cells), rule |-> r, failed |-> st.failed]
    ELSE TryRules(r + 1, cfg, salt, col, [st EXCEPT !.failed = Append(@, r)])

TryRules(r, cfg, salt, col, st) ==
    IF r > NumRules THEN st
    ELSE IF ~RuleMatches(r, col) THEN TryRules(r + 1, cfg, salt, col, st)
    ELSE AfterRule(r, cfg, salt, col, st, ApplyRule(r, cfg, salt, col, st.rows))

(***************************************************************************)
(* Inputs: the tables, salts and caller configurations of the model.       *)
(***************************************************************************)
ColsA == <<"SenderName", "SenderAadhar", "SenderGender", "TransactionAmount",
           "ReceiverAccountCreationDate", "Fraud">>
RowsA ==
    {[SenderName |-> Str("Ravi"), SenderAadhar |-> Str("123456789012"),
      SenderGender |-> Str("Male"), TransactionAmount |-> Num(9000000),
      ReceiverAccountCreationDate |-> Str("2024-01-01"), Fraud |-> IntC(0)],
     [SenderName |-> Str("Asha"), SenderAadhar |-> Str(" "),
      SenderGender |-> Str("F"), TransactionAmount |-> NaN,
      ReceiverAccountCreationDate |-> Str("2019-05-05"), Fraud |-> IntC(1)],
     [SenderName |-> Str("Kiran"), SenderAadhar |-> Str("222233334444"),
      SenderGender |-> NaN, TransactionAmount |-> Num(7000000),
      ReceiverAccountCreationDate |-> Str("2024-01-01"), Fraud |-> IntC(0)],
     [SenderName |-> Str("Meena"), SenderAadhar |-> NaN,
      SenderGender |-> None, TransactionAmount |-> Str("abc"),
      ReceiverAccountCreationDate |-> NaN, Fraud |-> NaN]}

ColsB == <<"TransactionID", "SenderSSN", "SenderCard", "ReceiverCard", "ReceiverName",
           "SenderDOB", "TransactionTime", "TransactionAmount">>
RowsB ==
    {[TransactionID |-> Str("T1"), SenderSSN |-> Str("123456789"),
      SenderCard |-> Str("4111111111111111"), ReceiverCard |-> Str("5500000000000004"),
      ReceiverName |-> Str("Liam"), SenderDOB |-> Str("1990-02-03"),
      TransactionTime |-> Str("10:00:00"), TransactionAmount |-> Num(9000000)],
     [TransactionID |-> IntC(2), SenderSSN |-> NaN,
      SenderCard |-> NaN, ReceiverCard |-> Str(""),
      ReceiverName |-> Str("Emma"), SenderDOB |-> NaN,
      TransactionTime |-> NaN, TransactionAmount |-> Str("12")],
     [TransactionID |-> NaN, SenderSSN |-> Str("987654321"),
      SenderCard |-> Str("4111111111111111"), ReceiverCard |-> NaN,
      ReceiverName |-> NaN, SenderDOB |-> Str("1985-07-09"),
      TransactionTime |-> Str("23:59:59"), TransactionAmount |-> None]}

ColsC == <<"City", "SenderIP", "SenderISP", "ReceiverGender", "Notes",
           "SenderBankBalance", "TransactionAmount", "Fraud">>
RowsC ==
    {[City |-> Str("Pune"), SenderIP |-> Str("10.0.0.1"), SenderISP |-> Str("Jio"),
      ReceiverGender |-> Str("Male"), Notes |-> Str("rent"),
      SenderBankBalance |-> Num(5000000), TransactionAmount |-> Num(9000000),
      Fraud |-> IntC(0)],
     [City |-> Str("Delhi"), SenderIP |-> NaN, SenderISP |-> Str("ACT"),
      ReceiverGender |-> NaN, Notes |-> NaN,
      SenderBankBalance |-> Num(10000), TransactionAmount |-> Num(8000000),
      Fraud |-> IntC(1)]}

ColsD == <<"TransactionID", "SenderAadhar", "SenderPhone", "SenderBankBalance",
           "ReceiverName", "ReceiverBankBalance", "Email">>
RowsD ==
    {[TransactionID |-> Str("T1"), SenderAadhar |-> Str("123456789012"),
      SenderPhone |-> Str("9876543210"), SenderBankBalance |-> Num(5000000),
      ReceiverName |-> Str("Liam"), ReceiverBankBalance |-> Num(700000),
      Email |-> Str("ravi@mail.in")],
     [TransactionID |-> Str("T2"), SenderAadhar |-> Str("123456789012"),
      SenderPhone |-> Str("9876543210"), SenderBankBalance |-> Num(5000000),
      ReceiverName |-> Str("Emma"), ReceiverBankBalance |-> Num(700000),
      Email |-> Str("ravi@mail.in")],
     [TransactionID |-> Str("T3"), SenderAadhar |-> Str("222233334444"),
      SenderPhone |-> NaN, SenderBankBalance |-> Num(5000000),
      ReceiverName |-> Str("Liam"), ReceiverBankBalance |-> Num(700000),
      Email |-> NaN]}

\* the tables with at most MaxRows rows over one header
TablesOver(cols, rowset) ==
    UNION {{[cols |-> cols, rows |-> rs] : rs \in [1..n -> rowset]} : n \in 0..MaxRows}

\* salt arguments; "" stands for no salt (None or the empty string)
Salts == {"", "s1"}

\* hex(random.getrandbits(128)): what a fresh salt can be
FreshSalts == {"0x1f", "0x2e"}

CfgFraudFull ==
    [fraud_indicators |->
        [high_amount_threshold |-> 5000, high_amount_risk_increase |-> 25,
         new_account_risk_increase |-> 15, base_fraud_probability |-> 10,
         max_fraud_probability |-> 30]]
CfgFraudPartial == [fraud_indicators |-> [high_amount_threshold |-> 5000]]
CfgNamesPartial == [names |-> [male |-> <<"Raj", "Dev">>]]
CfgNoVisa == [card_brands |-> [amex |-> "3"]]
CfgTwoDigit == [card_brands |-> [visa |-> "45", mastercard |-> "51", amex |-> "34"]]
CfgFloor ==
    [amount_ranges |-> [TransactionAmount |-> <<60, 170, 50004>>,
                        SenderBankBalance |-> <<100, 100, 12344>>]]

\* SyntheticDataGenerator(cfg).generate_synthetic_data(df, salt)
Calls(tables, salts, cfgs) ==
    {[df |-> t, salt |-> st, cfg |-> c] : t \in tables, st \in salts, c \in cfgs}

Scenarios ==
    Calls(TablesOver(ColsA, RowsA), {"s1"},
          {<<>>, CfgFraudFull, CfgFraudPartial, CfgNamesPartial, CfgFloor})
    \cup Calls(TablesOver(ColsA, RowsA), {"s2"}, {<<>>, CfgFraudFull})
    \cup Calls(TablesOver(ColsB, RowsB), {"s1"}, {<<>>, CfgNoVisa, CfgTwoDigit})
    \cup Calls(TablesOver(ColsC, RowsC), Salts, {<<>>})
    \cup Calls(TablesOver(ColsC, RowsC), {"s1"}, {CfgFloor, CfgFraudFull})
    \cup Calls(TablesOver(ColsD, RowsD), {"s1"}, {<<>>})

\* the reorderings of n rows
Perms(n) == {p \in [1..n -> 1..n] : \A a, b \in 1..n : p[a] = p[b] => a = b}

Permute(rows, p) == [k \in 1..Len(rows) |-> rows[p[k]]]

Identity(n) == [k \in 1..n |-> k]

(***************************************************************************)
(* State.                                                                  *)
(***************************************************************************)
VARIABLES
    cfgArg,         \* the config the caller handed to __init__
    config,         \* self.config
    df,             \* the caller's table
    saltArg,        \* the caller's salt argument
    today,          \* date.today().year
    run,            \* calls of generate_synthetic_data started: 0, 1, 2
    perm,           \* the row order of the table handed to the current call
    pc,             \* "idle", "rows", "done", "raised"
    salt,           \* local: the resolved salt
    column_types,   \* local: _detect_column_types(df)
    i,              \* local: rows processed by the loop
    out_rows,       \* local: out_rows
    fr,             \* locals of the Fraud block of the last row processed
    err,            \* the exception the call raised, "" if none
    ret,            \* what the current call returned
    ret1,           \* what the first call returned
    fn,             \* a direct call of one method: its arguments and result
    out,            \* tokenize_dataset local: out, the copy of the table being rewritten
    colidx,         \* tokenize_dataset local: columns processed by the loop
    log             \* per processed column: the rule applied and the rules that raised

vars == <<cfgArg, config, df, saltArg, today, run, perm, pc, salt,
          column_types, i, out_rows, fr, err, ret, ret1, fn, out, colidx, log>>

\* the locals of DataTokenizer.tokenize_dataset
tokvars == <<out, colidx, log>>

NoTable == [cols |-> <<>>, rows |-> <<>>]

NoCall ==
    [op |-> "", salt |-> "", key |-> "", brand |-> "", val |-> None,
     low |-> 0, high |-> 0, floor |-> 0, done |-> FALSE, out |-> None, err |-> "",
     num |-> "", last |-> 0, keep |-> 0, prefix |-> "", raw |-> None,
     cols |-> <<>>, types |-> <<>>]

\* the state after SyntheticDataGenerator(sc.cfg), before any call
Constructed(sc) ==
    /\ cfgArg = sc.cfg
    /\ config = SetupDefaultConfig(sc.cfg)
    /\ df = sc.df
    /\ saltArg = sc.salt
    /\ today = FirstYear
    /\ run = 0
    /\ perm = Identity(Len(sc.df.rows))
    /\ pc = "idle"
    /\ salt = ""
    /\ column_types = DetectColumnTypes(<<>>)
    /\ i = 0
    /\ out_rows = <<>>
    /\ fr = NoFraud
    /\ err = ""
    /\ ret = NoTable
    /\ ret1 = NoTable
    /\ out = NoTable
    /\ colidx = 0
    /\ log = <<>>

Init ==
    /\ \E sc \in Scenarios : Constructed(sc)
    /\ fn = NoCall

\* salt = salt if salt else hex(random.getrandbits(128)); column_types = ...
Enter(p) ==
    /\ run' = run + 1
    /\ perm' = p
    /\ \E fresh \in FreshSalts : salt' = IF saltArg # "" THEN saltArg ELSE fresh
    /\ column_types' = DetectColumnTypes(df.cols)
    /\ i' = 0
    /\ out_rows' = <<>>
    /\ fr' = NoFraud
    /\ err' = ""
    /\ pc' = "rows"
    /\ UNCHANGED <<cfgArg, config, df, saltArg, today, ret, ret1, fn>>
    /\ UNCHANGED tokvars

\* the first call of generate_synthetic_data(df, salt)
Call ==
    /\ pc = "idle"
    /\ Enter(Identity(Len(df.rows)))

\* a second call with the same arguments, the rows of the table in some order
CallAgain ==
    /\ pc = "done"
    /\ run = 1
    /\ \E p \in Perms(Len(df.rows)) : Enter(p)

\* the end of one iteration: out_rows.append(new), or the exception leaves the call
EndRow(r) ==
    IF r.err # ""
    THEN /\ pc' = "raised"
         /\ err' = r.err
         /\ UNCHANGED <<i, out_rows, fr>>
    ELSE /\ out_rows' = Append(out_rows, r.new)
         /\ i' = i + 1
         /\ fr' = r.fr
         /\ UNCHANGED <<pc, err>>

\* one iteration of: for i, row in df.iterrows()
ProcessRow ==
    /\ pc = "rows"
    /\ i < Len(df.rows)
    /\ EndRow(SynthRow(config, salt, df.cols, column_types, today, df.rows[perm[i + 1]], i))
    /\ UNCHANGED <<cfgArg, config, df, saltArg, today, run, perm, salt,
                   column_types, ret, ret1, fn>>
    /\ UNCHANGED tokvars

\* return pd.DataFrame(out_rows)
Return ==
    /\ pc = "rows"
    /\ i = Len(df.rows)
    /\ pc' = "done"
    /\ ret' = DataFrame(df.cols, out_rows)
    /\ ret1' = IF run = 1 THEN ret' ELSE ret1
    /\ UNCHANGED <<cfgArg, config, df, saltArg, today, run, perm, salt,
                   column_types, i, out_rows, fr, err, fn>>
    /\ UNCHANGED tokvars

\* the calendar year changes (once, between calls)
Tick ==
    /\ today = FirstYear
    /\ pc \in {"idle", "done"}
    /\ run < 2
    /\ today' = today + 1
    /\ UNCHANGED <<cfgArg, config, df, saltArg, run, perm, pc, salt,
                   column_types, i, out_rows, fr, err, ret, ret1, fn>>
    /\ UNCHANGED tokvars

Next == Call \/ CallAgain \/ ProcessRow \/ Return \/ Tick

Spec == Init /\ [][Next]_vars

(***************************************************************************)
(* Direct calls of the pure synthesizers _det_card and _perturb.           *)
(***************************************************************************)
CardSalts == {"s1", "s2", "0x1f"}
CardKeys == {"k1", "123456789", "snd0", "rcv1", "Liam", ""}
CardBrands == {"visa", "mastercard", "amex", "mc"}
CardConfigs == {<<>>, CfgTwoDigit}

PerturbValues == {Num(10000), Num(9000000), IntC(40), Str("12"), Num(49999), NaN, Str("abc"), None}
PerturbKeys == {"T1|TransactionAmount", "0|SenderBankBalance", "nan|TransactionAmount"}
PerturbTriples == {<<60, 170, 50000>>, <<80, 130, 100000>>, <<60, 170, 50004>>,
                   <<100, 100, 12344>>}

CardCalls ==
    {[NoCall EXCEPT !.op = "_det_card", !.salt = st, !.key = k, !.brand = b] :
        st \in CardSalts, k \in CardKeys, b \in CardBrands}

PerturbCalls ==
    {[NoCall EXCEPT !.op = "_perturb", !.salt = st, !.key = k, !.val = v,
                    !.low = t[1], !.high = t[2], !.floor = t[3]] :
        st \in {"s1", "s2"}, k \in PerturbKeys, v \in PerturbValues, t \in PerturbTriples}

InitPure ==
    /\ \E c \in CardConfigs :
          Constructed([df |-> [cols |-> ColsB, rows |-> <<>>], salt |-> "s1", cfg |-> c])
    /\ fn \in CardCalls \cup PerturbCalls

\* what the call returned or raised
Returned(res) ==
    /\ fn' = [fn EXCEPT !.done = TRUE, !.out = res.val, !.err = res.err]
    /\ UNCHANGED <<cfgArg, config, df, saltArg, today, run, perm, pc, salt,
                   column_types, i, out_rows, fr, err, ret, ret1>>
    /\ UNCHANGED tokvars

\* self._det_card(salt, key, brand)
ApplyCard ==
    /\ fn.op = "_det_card"
    /\ ~fn.done
    /\ Returned(DetCard(config, fn.salt, fn.key, fn.brand))

\* self._perturb(val, salt, key, low, high, floor)
ApplyPerturb ==
    /\ fn.op = "_perturb"
    /\ ~fn.done
    /\ Returned(Ok(Perturb(fn.val, fn.salt, fn.key, fn.low, fn.high, fn.floor)))

NextPure == ApplyCard \/ ApplyPerturb

SpecPure == InitPure /\ [][NextPure]_vars

(***************************************************************************)
(* DataTokenizer: direct calls of _mask_keep_last, _mask_keep_first_last.  *)
(***************************************************************************)
MaskNums == {"", "7", "12", "123", "1234", "12345", "123456", "9876543210",
             "98-76", "91 98765 43210"}
TokenPrefixes == {"AAD", "SSN", "CARD", "RCARD", ""}
TokenRaws == {Str("123456789012"), Str(""), IntC(42), NaN, Str("4111111111111111")}
TokenSalts == {"s1", "s2", "0x1f", ""}

MaskLastCalls ==
    {[NoCall EXCEPT !.op = "_mask_keep_last", !.num = n, !.last = l] :
        n \in MaskNums, l \in 0..MaxKeep}

MaskFirstLastCalls ==
    {[NoCall EXCEPT !.op = "_mask_keep_first_last", !.num = n, !.keep = k] :
        n \in MaskNums, k \in 0..MaxKeep}

TokenCalls ==
    {[NoCall EXCEPT !.op = "_token", !.prefix = p, !.raw = r, !.salt = st] :
        p \in TokenPrefixes, r \in TokenRaws, st \in TokenSalts}

\* the state after DataTokenizer(sc.cfg), before any call
TokConstructed(sc) ==
    /\ cfgArg = sc.cfg
    /\ config = TokSetupDefaultConfig(sc.cfg)
    /\ df = sc.df
    /\ saltArg = sc.salt
    /\ today = FirstYear
    /\ run = 0
    /\ perm = Identity(Len(sc.df.rows))
    /\ pc = "idle"
    /\ salt = ""
    /\ column_types = <<>>
    /\ i = 0
    /\ out_rows = <<>>
    /\ fr = NoFraud
    /\ err = ""
    /\ ret = NoTable
    /\ ret1 = NoTable
    /\ out = NoTable
    /\ colidx = 0
    /\ log = <<>>

InitMask ==
    /\ TokConstructed([df |-> NoTable, salt |-> "s1", cfg |-> <<>>])
    /\ fn \in MaskLastCalls \cup MaskFirstLastCalls

\* self._mask_keep_last(num, last)
ApplyMaskKeepLast ==
    /\ fn.op = "_mask_keep_last"
    /\ ~fn.done
    /\ Returned(Ok(Str(MaskKeepLast(fn.num, fn.last))))

\* self._mask_keep_first_last(num, keep)
ApplyMaskKeepFirstLast ==
    /\ fn.op = "_mask_keep_first_last"
    /\ ~fn.done
    /\ Returned(Ok(Str(MaskKeepFirstLast(fn.num, fn.keep))))

\* self._token(prefix, raw, salt)
ApplyToken ==
    /\ fn.op = "_token"
    /\ ~fn.done
    /\ Returned(Ok(Str(Token(fn.prefix, fn.raw, fn.salt))))

NextMask == ApplyMaskKeepLast \/ ApplyMaskKeepFirstLast

SpecMask == InitMask /\ [][NextMask]_vars

(***************************************************************************)
(* DataTokenizer: calls of tokenize_dataset and direct calls of _token.    *)
(***************************************************************************)
ColsT == <<"SenderName", "TransactionName", "SenderAadhar", "ReceiverCard",
           "NameOnCard", "Mobile", "Amount">>
RowsT ==
    {[SenderName |-> Str("Ravi"), TransactionName |-> Str("rent"),
      SenderAadhar |-> Str("123456789012"), ReceiverCard |-> Str("5500000000000004"),
      NameOnCard |-> Str("RAVI K"), Mobile |-> Str("98765 43210"), Amount |-> Num(9000000)],
     [SenderName |-> NaN, TransactionName |-> Str(""),
      SenderAadhar |-> IntC(42), ReceiverCard |-> NaN,
      NameOnCard |-> None, Mobile |-> Str("123"), Amount |-> NaN],
     [SenderName |-> Str("Asha"), TransactionName |-> Str("fees"),
      SenderAadhar |-> Str("123456789012"), ReceiverCard |-> Str("4111111111111111"),
      NameOnCard |-> Str("ASHA"), Mobile |-> IntC(5550100), Amount |-> IntC(12)]}

ColsU == <<"SSN", "SenderCard", "EmailAddress", "HomeAddress", "LocationName",
           "CardHolderPhone">>
RowsU ==
    {[SSN |-> Str("123-45-6789"), SenderCard |-> Str("4111111111111111"),
      EmailAddress |-> Str("ravi@mail.in"), HomeAddress |-> Str("12 MG Road"),
      LocationName |-> Str("Pune"), CardHolderPhone |-> Str("9876543210")],
     [SSN |-> NaN, SenderCard |-> IntC(42),
      EmailAddress |-> Str(""), HomeAddress |-> NaN,
      LocationName |-> NaN, CardHolderPhone |-> Str("4111111111111111")]}

TokCfgPrefixes ==
    [token_prefixes |-> [aadhaar |-> "UID", ssn |-> "SOC", card |-> "PAN",
                         receiver_card |-> "RPAN"]]
TokCfgOnePrefix == [token_prefixes |-> [card |-> "C"]]
TokCfgNoNames == [name_list |-> <<>>]
TokCfgLists == [name_list |-> <<"Dev Raj", "Mira">>, city_list |-> <<"Goa">>, mask_digits |-> 2]

TokScenarios ==
    Calls(TablesOver(ColsT, RowsT), {"s1", "s2"}, {<<>>})
    \cup Calls(TablesOver(ColsT, RowsT), {"s1"},
               {TokCfgPrefixes, TokCfgOnePrefix, TokCfgNoNames, TokCfgLists})
    \cup Calls(TablesOver(ColsU, RowsU), {"", "s1"}, {<<>>})
    \cup Calls(TablesOver(ColsU, RowsU), {"s1"},
               {TokCfgPrefixes, TokCfgOnePrefix, TokCfgNoNames, TokCfgLists})

InitTok ==
    \/ /\ \E sc \in TokScenarios : TokConstructed(sc)
       /\ fn = NoCall
    \/ /\ TokConstructed([df |-> NoTable, salt |-> "s1", cfg |-> <<>>])
       /\ fn \in TokenCalls

\* salt = self._salt_or_new(salt); out = df.copy()
TokEnter ==
    /\ run' = run + 1
    /\ \E fresh \in FreshSalts : salt' = IF saltArg # "" THEN saltArg ELSE fresh
    /\ out' = df
    /\ colidx' = 0
    /\ log' = <<>>
    /\ pc' = "cols"
    /\ UNCHANGED <<cfgArg, config, df, saltArg, today, perm, column_types, i,
                   out_rows, fr, err, ret, ret1, fn>>

\* the first call of tokenize_dataset(df, salt)
TokCall ==
    /\ pc = "idle"
    /\ fn = NoCall
    /\ TokEnter

\* a second call with the same arguments
TokCallAgain ==
    /\ pc = "done"
    /\ run = 1
    /\ TokEnter

\* the end of one iteration of: for col in out.columns
EndColumn(col, st) ==
    /\ out' = [out EXCEPT !.rows = st.rows]
    /\ log' = Append(log, [col |-> col, rule |-> st.rule, failed |-> st.failed])
    /\ colidx' = colidx + 1

\* one iteration of: for col in out.columns
TokenizeColumn ==
    /\ pc = "cols"
    /\ colidx < Len(out.cols)
    /\ EndColumn(out.cols[colidx + 1],
                 TryRules(1, config, salt, out.cols[colidx + 1],
                          [rows |-> out.rows, rule |-> 0, failed |-> <<>>]))
    /\ UNCHANGED <<cfgArg, config, df, saltArg, today, run, perm, pc, salt,
                   column_types, i, out_rows, fr, err, ret, ret1, fn>>

\* return out
TokReturn ==
    /\ pc = "cols"
    /\ colidx = Len(out.cols)
    /\ pc' = "done"
    /\ ret' = out
    /\ ret1' = IF run = 1 THEN ret' ELSE ret1
    /\ UNCHANGED <<cfgArg, config, df, saltArg, today, run, perm, salt,
                   column_types, i, out_rows, fr, err, fn, out, colidx, log>>

NextTok == TokCall \/ TokCallAgain \/ TokenizeColumn \/ TokReturn \/ ApplyToken

SpecTok == InitTok /\ [][NextTok]_vars

(***************************************************************************)
(* SyntheticDataGenerator: direct calls of _detect_column_types.           *)
(***************************************************************************)
MaxCols == 2

ColumnPool ==
    {"SenderName", "City", "TransactionID", "SenderDOB", "TransactionAmount", "Mobile",
     "Email", "SenderIP", "ReceiverGender", "Notes", "EmailAddress", "LocationName",
     "ContactTime", "Description", "Company", "IPAddress", "BirthPlace", "GENDER_ID"}

Headers == UNION {[1..n -> ColumnPool] : n \in 0..MaxCols}

ClassifyCalls == {[NoCall EXCEPT !.op = "_detect_column_types", !.cols = h] : h \in Headers}

InitClassify ==
    /\ Constructed([df |-> NoTable, salt |-> "s1", cfg |-> <<>>])
    /\ fn \in ClassifyCalls

\* self._detect_column_types(df) on a table with the columns fn.cols
ApplyClassify ==
    /\ fn.op = "_detect_column_types"
    /\ ~fn.done
    /\ fn' = [fn EXCEPT !.done = TRUE, !.types = DetectColumnTypes(fn.cols)]
    /\ UNCHANGED <<cfgArg, config, df, saltArg, today, run, perm, pc, salt,
                   column_types, i, out_rows, fr, err, ret, ret1>>
    /\ UNCHANGED tokvars

NextClassify == ApplyClassify

SpecClassify == InitClassify /\ [][NextClassify]_vars

(***************************************************************************)
(* Claims.                                                                 *)
(***************************************************************************)

\* C1 (determinism): a second call with the same table (rows in the same
\* order), the same non-empty salt and the same configuration returns the
\* same table as the first, cell for cell.
C1_Determinism ==
    (run = 2 /\ pc = "done" /\ saltArg # "" /\ perm = Identity(Len(df.rows)))
        => ret = ret1

\* no two rows of the caller's table are equal
DistinctRows == \A a, b \in 1..Len(df.rows) : df.rows[a] = df.rows[b] => a = b

\* C2 (row independence): with the calendar year unchanged, a second call on
\* the (pairwise distinct) rows in another order returns the rows of the
\* first result in that same order.
C2_RowIndependence ==
    (run = 2 /\ pc = "done" /\ saltArg # "" /\ today = FirstYear /\ DistinctRows)
        => ret.rows = Permute(ret1.rows, perm)

\* the standard Luhn sum of a digit string: from the right, every second
\* digit (starting next to the last one) is doubled, 9 subtracted above 9
StandardLuhnSum(s) ==
    LET d(k) == DigitAt(s, Len(s) + 1 - k)
        term(k) == IF k % 2 = 0 THEN (IF 2 * d(k) > 9 THEN 2 * d(k) - 9 ELSE 2 * d(k))
                   ELSE d(k)
        sum[k \in 0..Len(s)] == IF k = 0 THEN 0 ELSE sum[k - 1] + term(k)
    IN  sum[Len(s)]

\* the prefix configured for the brand _det_card resolves to
ResolvedPrefix(brand) ==
    IF brand \in DOMAIN config.card_brands THEN config.card_brands[brand]
    ELSE config.card_brands["visa"]

\* C3 (Luhn validity): every _det_card result is 16 decimal digits, starts
\* with the prefix of the resolved brand and has Luhn sum 0 mod 10.
C3_LuhnValid ==
    (fn.op = "_det_card" /\ fn.done)
        => /\ fn.err = ""
           /\ fn.out.t = "str"
           /\ Len(fn.out.s) = 16
           /\ IsDigits(fn.out.s)
           /\ Prefix(fn.out.s, Len(ResolvedPrefix(fn.brand))) = ResolvedPrefix(fn.brand)
           /\ StandardLuhnSum(fn.out.s) % 10 = 0

\* a card was made for an unrecognized brand under two-digit prefixes
C3_Witness ==
    /\ fn.op = "_det_card" /\ fn.done /\ fn.brand = "mc"
    /\ Len(ResolvedPrefix("mc")) = 2
    /\ Len(fn.out.s) = 16

\* C4 (perturbation floor): the value _perturb returns for a numeric input
\* is at least the floor it was given.
C4_PerturbFloor ==
    (fn.op = "_perturb" /\ fn.done /\ ToFloat(fn.val).err = "" /\ ~ToFloat(fn.val).nan)
        => (fn.out.t = "num" /\ fn.out.v >= fn.floor)

\* C5 (fraud probability bound): for the row just processed, the probability
\* compared with the draw is at most max_fraud_probability, and the Fraud
\* cell written is 1 exactly when the draw is strictly below it, else 0.
C5_FraudBound ==
    fr.ran =>
        /\ fr.cmp <= config.fraud_indicators.max_fraud_probability
        /\ fr.cmp <= fr.prob
        /\ fr.label \in {0, 1}
        /\ (fr.label = 1) <=> (fr.draw < fr.cmp)
        /\ out_rows[Len(out_rows)]["Fraud"] = IntC(fr.label)

\* a row whose increments pushed the probability above the maximum
C5_Witness ==
    /\ fr.ran
    /\ fr.high
    /\ fr.prob > config.fraud_indicators.max_fraud_probability

\* the input row of the row just processed
LastInputRow == df.rows[perm[Len(out_rows)]]

\* C6 (fraud scenario): under the default configuration, a row whose input
\* TransactionAmount is 9000 and whose input ReceiverAccountCreationDate is
\* in the previous calendar year is compared against probability 0.50.
C6_FraudScenario ==
    (/\ pc = "rows" /\ Len(out_rows) > 0 /\ cfgArg = <<>>
     /\ InCols("Fraud", df.cols)
     /\ InCols("TransactionAmount", df.cols)
     /\ InCols("ReceiverAccountCreationDate", df.cols)
     /\ LastInputRow["TransactionAmount"] = Num(9000000)
     /\ LastInputRow["ReceiverAccountCreationDate"].t = "str"
     /\ ParseInt(Prefix(LastInputRow["ReceiverAccountCreationDate"].s, 4)) = today - 1)
        => (fr.ran /\ fr.cmp = 50)

\* C7 (salt reporting): a call made without a salt returns the salt it
\* resolved together with the table.
C7_SaltReported ==
    (pc = "done" /\ saltArg = "")
        => ("salt" \in DOMAIN ret /\ ret["salt"] = salt)

\* C8 (shape preservation): the returned table has the input's columns in
\* the input's order and as many rows as the input.
C8_ShapePreserved ==
    pc = "done"
        => /\ ret.cols = df.cols
           /\ Len(ret.rows) = Len(df.rows)

\* C9 (no mid-table failure): a call that raises does so before any row has
\* been processed.
C9_NoMidTableFailure == pc = "raised" => Len(out_rows) = 0

\* what layering the caller's fields over the defaults gives for a group
Layered(g) ==
    IF g \in {"names", "fraud_indicators"}
    THEN [f \in DOMAIN Defaults[g] |->
            IF g \in DOMAIN cfgArg /\ f \in DOMAIN cfgArg[g] THEN cfgArg[g][f]
            ELSE Defaults[g][f]]
    ELSE IF g \in DOMAIN cfgArg THEN cfgArg[g] ELSE Defaults[g]

\* C10 (configuration layering): the effective configuration holds the
\* caller's value for every supplied field, the default for every other,
\* and no call fails on a missing field.
C10_ConfigLayering ==
    /\ \A g \in DOMAIN Defaults : config[g] = Layered(g)
    /\ err # "KeyError"

\* the string has no character that is not a decimal digit
OnlyDigits(s) == \A k \in 1..Len(s) : CharAt(s, k) \in DOMAIN DigitIndex

MaskedExcept(masked, s, first, last) ==
    /\ Len(masked) = Len(s)
    /\ \A k \in 1..Len(s) :
          CharAt(masked, k) = (IF k <= first \/ k > Len(s) - last THEN CharAt(s, k) ELSE "*")

\* C11 (masking invariant): for a string of digits only of length L >= n,
\* _mask_keep_last with keep-last n returns a string of length L whose last n
\* characters are the input's and whose first L - n characters are all "*";
\* _mask_keep_first_last with keep k and L >= 2k returns length L with the first
\* k and the last k characters unchanged and the rest "*".
C11_MaskingInvariant ==
    /\ (fn.op = "_mask_keep_last" /\ fn.done /\ OnlyDigits(fn.num) /\ Len(fn.num) >= fn.last)
          => MaskedExcept(fn.out.s, fn.num, 0, fn.last)
    /\ (fn.op = "_mask_keep_first_last" /\ fn.done /\ OnlyDigits(fn.num)
          /\ Len(fn.num) >= 2 * fn.keep)
          => MaskedExcept(fn.out.s, fn.num, fn.keep, fn.keep)

\* the columns of the current call that a token rule rewrote
TokenColumns == {log[k].col : k \in {j \in 1..Len(log) : log[j].rule \in 2..5}}

\* prefix, hyphen, 12 hexadecimal characters
IsToken(s, prefix) ==
    /\ Len(s) = Len(prefix) + 13
    /\ SubSeq(s, 1, Len(prefix) + 1) = prefix \o "-"
    /\ \A k \in (Len(prefix) + 2)..Len(s) : CharAt(s, k) \in DOMAIN HexIndex

\* C12 (token stability and format): _token returns the prefix, a hyphen and
\* the first 12 hex characters of the SHA-256 of salt + "|" + value; within a
\* call equal cell values of a token column get equal tokens, and a second call
\* of tokenize_dataset with the same salt gives every cell the same token again.
C12_TokenStable ==
    /\ (fn.op = "_token" /\ fn.done) =>
          /\ IsToken(fn.out.s, fn.prefix)
          /\ fn.out.s = fn.prefix \o "-"
                        \o SubSeq(ShaHex(fn.salt \o "|" \o PyStr(fn.raw)), 1, 12)
    /\ pc = "done" =>
          \A col \in TokenColumns : \A j, k \in 1..Len(df.rows) :
              /\ \E p \in {"aadhaar", "ssn", "card", "receiver_card"} :
                    /\ p \in DOMAIN config.token_prefixes
                    /\ IsToken(ret.rows[k][col].s, config.token_prefixes[p])
              /\ PyStr(df.rows[j][col]) = PyStr(df.rows[k][col])
                    => ret.rows[j][col] = ret.rows[k][col]
    /\ (pc = "done" /\ run = 2 /\ saltArg # "") =>
          \A col \in TokenColumns : \A k \in 1..Len(df.rows) :
              ret.rows[k][col] = ret1.rows[k][col]

\* a second call has returned; two rows hold the same national ID and got one token
C12_Witness ==
    /\ pc = "done"
    /\ run = 2
    /\ saltArg # ""
    /\ Len(df.rows) = 2
    /\ df.rows[1] # df.rows[2]
    /\ "SenderAadhar" \in TokenColumns
    /\ df.rows[1]["SenderAadhar"] = df.rows[2]["SenderAadhar"]
    /\ ret.rows[1]["SenderAadhar"] = ret1.rows[2]["SenderAadhar"]
    /\ IsToken(ret.rows[1]["SenderAadhar"].s, "AAD")

\* the cell is missing (NaN, None) or a text that is not a number
MissingOrNonNumeric(cell) ==
    \/ cell.t \in {"nan", "none"}
    \/ cell.t = "str" /\ ~IsDigits(cell.s)

\* C13 (perturbation pass-through): for a non-numeric or missing amount cell,
\* a missing cell held as NaN included, _perturb does not raise and returns the
\* input unchanged, never the floor or another number.
C13_PassThrough ==
    (fn.op = "_perturb" /\ fn.done /\ MissingOrNonNumeric(fn.val))
        => (fn.err = "" /\ fn.out = fn.val)

\* the first candidate column that is present, non-null and non-blank in the
\* row gives the key; otherwise the fallback
RECURSIVE ResolveKey(_, _, _)
ResolveKey(row, candidates, fallback) ==
    IF Len(candidates) = 0 THEN fallback
    ELSE LET cell == row[Head(candidates)]
         IN  IF Head(candidates) \in DOMAIN row /\ cell.t \notin {"nan", "none"}
                /\ \E k \in 1..Len(PyStr(cell)) : CharAt(PyStr(cell), k) # " "
             THEN PyStr(cell)
             ELSE ResolveKey(row, Tail(candidates), fallback)

\* the keys the loop computed for the row just processed
LastKeys ==
    RowContext(config, salt, df.cols, column_types, today, LastInputRow, Len(out_rows) - 1)

\* C14 (identity key resolution): for the row just processed, each of the
\* sender, receiver and transaction keys is the value of the first candidate
\* column that is present, non-null and non-blank, and otherwise the fallback
\* for the row ordinal; a null or blank TransactionID gives the fallback key.
C14_KeyResolution ==
    (pc = "rows" /\ Len(out_rows) > 0) =>
        /\ LastKeys.sender_key =
              ResolveKey(LastInputRow,
                         <<"SenderAadhar", "SenderSSN", "SenderPhone", "SenderName">>,
                         "snd" \o IntStr(Len(out_rows) - 1))
        /\ LastKeys.receiver_key =
              ResolveKey(LastInputRow,
                         <<"ReceiverSSN", "ReceiverCard", "ReceiverPhone", "ReceiverName">>,
                         "rcv" \o IntStr(Len(out_rows) - 1))
        /\ LastKeys.txn_key =
              ResolveKey(LastInputRow, <<"TransactionID">>, IntStr(Len(out_rows) - 1))

\* the columns of one role, by the role word in their name
RoleColumns(role) == {df.cols[k] : k \in {j \in 1..Len(df.cols) : Contains(role, Lower(df.cols[j]))}}

\* the keys the loop computed for the k-th row of the call
KeysOf(k) == RowContext(config, salt, df.cols, column_types, today, df.rows[perm[k]], k - 1)

\* two rows of the returned table with the same key of the role and the same
\* input cells in the role's columns have the same output cells there
SameRoleSameOutput(role, j, k) ==
    (\A col \in RoleColumns(role) : df.rows[perm[j]][col] = df.rows[perm[k]][col])
        => (\A col \in RoleColumns(role) : ret.rows[j][col] = ret.rows[k][col])

\* C15 (internal row consistency): every synthesized field of the sender role
\* is derived from the row's sender key and every field of the receiver role
\* from its receiver key, none from another role's key: rows that agree on a
\* role's key and input cells agree on that role's output cells.
C15_RowConsistency ==
    pc = "done" =>
        \A j, k \in 1..Len(ret.rows) :
            /\ KeysOf(j).sender_key = KeysOf(k).sender_key
                  => SameRoleSameOutput("sender", j, k)
            /\ KeysOf(j).receiver_key = KeysOf(k).receiver_key
                  => SameRoleSameOutput("receiver", j, k)

\* the categories in their order of priority, each with its keywords
KeywordOrder ==
    <<[cat |-> "name_columns", kws |-> {"name", "firstname", "lastname"}],
      [cat |-> "address_columns", kws |-> {"address", "city", "location"}],
      [cat |-> "id_columns", kws |-> {"id", "ssn", "aadhaar", "aadhar", "pan"}],
      [cat |-> "date_columns", kws |-> {"date", "time", "dob", "birth"}],
      [cat |-> "amount_columns", kws |-> {"amount", "balance", "income", "price", "value"}],
      [cat |-> "phone_columns", kws |-> {"phone", "mobile", "contact"}],
      [cat |-> "email_columns", kws |-> {"email"}],
      [cat |-> "ip_columns", kws |-> {"ip"}],
      [cat |-> "gender_columns", kws |-> {"gender"}]>>

\* the positions of KeywordOrder one of whose keywords is in the lowercased name
Matching(col) ==
    {p \in 1..Len(KeywordOrder) : \E kw \in KeywordOrder[p].kws : Contains(kw, Lower(col))}

\* the categories whose list holds the column
CategoriesOf(types, col) ==
    {cat \in DOMAIN types : \E k \in 1..Len(types[cat]) : types[cat][k] = col}

\* C16 (column classification): _detect_column_types puts each column in at
\* most one category, the first in the order name > address > id > date >
\* amount > phone > email > ip > gender one of whose keywords is a substring of
\* the lowercased name, and in none when no keyword matches; applying it again
\* to the same headers gives the same mapping.
C16_Classification ==
    (fn.op = "_detect_column_types" /\ fn.done) =>
        /\ \A k \in 1..Len(fn.cols) :
              /\ Cardinality(CategoriesOf(fn.types, fn.cols[k])) <= 1
              /\ CategoriesOf(fn.types, fn.cols[k]) =
                    (IF Matching(fn.cols[k]) = {} THEN {}
                     ELSE {KeywordOrder[CHOOSE p \in Matching(fn.cols[k]) :
                              \A q \in Matching(fn.cols[k]) : p <= q].cat})
        /\ DetectColumnTypes(fn.cols) = fn.types

\* a header was classified whose columns match keywords of several categories
C16_Witness ==
    /\ fn.op = "_detect_column_types"
    /\ fn.done
    /\ fn.cols = <<"EmailAddress", "LocationName">>
    /\ fn.types["address_columns"] = <<"EmailAddress">>
    /\ fn.types["name_columns"] = <<"LocationName">>
    /\ Cardinality(Matching("EmailAddress")) = 2

\* the columns the loop body assigns in new for the row just processed
WrittenColumns ==
    {AllSteps(LastKeys)[k].col : k \in 1..Len(AllSteps(LastKeys))}
    \cup {col \in DOMAIN config.amount_ranges : InCols(col, df.cols)}
    \cup {col \in {"Fraud"} : InCols(col, df.cols)}

\* C17 (synthesis dispatch): in the row just processed, every column that the
\* classifier assigns a category has its cell replaced by a synthesizer, and
\* only columns with no well-known name and no category are copied verbatim.
C17_Dispatch ==
    (pc = "rows" /\ Len(out_rows) > 0) =>
        \A k \in 1..Len(df.cols) :
            Category(df.cols[k]) # "" => df.cols[k] \in WrittenColumns

\* the first rule of the fixed order whose predicate matches the column, 0 if none
SelectedRule(col) ==
    IF \A r \in 1..NumRules : ~RuleMatches(r, col) THEN 0
    ELSE CHOOSE r \in 1..NumRules :
            RuleMatches(r, col) /\ \A q \in 1..(r - 1) : ~RuleMatches(q, col)

\* the cells of a column of a table
ColumnOf(table, col) == [k \in 1..Len(table.rows) |-> table.rows[k][col]]

\* C18 (tokenization rule selection): for every column tokenize_dataset applies
\* exactly one rule, the first of the fixed order whose predicate matches the
\* column name, to every row, and no later rule; a receiver-qualified card
\* column gets the receiver-card prefix; a column matching no rule is unchanged.
C18_RuleSelection ==
    pc = "done" =>
        \A n \in 1..Len(log) :
            /\ log[n].rule = SelectedRule(log[n].col)
            /\ log[n].rule = 0 => ColumnOf(ret, log[n].col) = ColumnOf(df, log[n].col)
            /\ log[n].rule # 0 =>
                  \A k \in 1..Len(df.rows) :
                      ret.rows[k][log[n].col] =
                          RuleCell(log[n].rule, config, salt, log[n].col,
                                   PyStr(df.rows[k][log[n].col])).val
            /\ SelectedRule(log[n].col) = 4 =>
                  \A k \in 1..Len(df.rows) :
                      /\ "receiver_card" \in DOMAIN config.token_prefixes
                      /\ IsToken(ret.rows[k][log[n].col].s,
                                 config.token_prefixes["receiver_card"])

\* C19 (tokenization failure containment): when the rule selected for a column
\* fails, tokenize_dataset does not raise, the column keeps its original
\* values, no lower-priority rule is applied to it in place of the selected one,
\* and the other columns are still processed by their own rules.
C19_FailureContained ==
    /\ pc # "raised"
    /\ pc \in {"cols", "done"} =>
          \A n \in 1..Len(log) :
              IF log[n].failed # <<>>
              THEN /\ log[n].rule = 0
                   /\ ColumnOf(out, log[n].col) = ColumnOf(df, log[n].col)
              ELSE log[n].rule = SelectedRule(log[n].col)

====
